---- MODULE Spec2Model ----
(***************************************************************************)
(* Model of eidaqc's availability probe (src/src/eidaqc/eida_availability  *)
(* .py): the inventory cache with its retry gate (RetryManager,            *)
(* EidaAvailability.get_inventory) and the random station sampler          *)
(* (EidaAvailability.select_random_station).                               *)
(*                                                                         *)
(* Conventions.                                                            *)
(*  - A Python value that may be None is a sequence of length at most 1:   *)
(*    <<>> is None, <<v>> is the value v.  A file that may be missing is   *)
(*    modelled the same way.                                               *)
(*  - Time is an integer clock `now` (time.time() / UTCDateTime()); file   *)
(*    modification times and station end dates are values of that clock.   *)
(*  - An inventory is a sequence of network objects, each with a code and  *)
(*    a sequence of station objects [code, end_date]; the routing client   *)
(*    may return several network objects with the same code.               *)
(*  - Probabilities (np.random.random(), large_networks) are percentages.  *)
(***************************************************************************)
EXTENDS Integers, Sequences, FiniteSets, TLC

VARIABLES
    now,          \* the wall clock
    cfg,          \* the constructor's parameters (EidaAvailability.__init__)
    slist_cache,  \* the file chanlist_cache.pickle: <<>> or <<[inv, mtime]>>
    flagfile,     \* the file retrymanager_eidainventory.flag: <<>> or <<mtime>>
    res,          \* what the last call found, did and returned
    consumed,     \* history: new_retry() removed the flag file and
                  \* try_failed() has not been called since
    pc,           \* select_random_station: "idle", "loop", "selected", "error"
    slist,        \* select_random_station: the inventory it samples from
    selsta,       \* select_random_station: the station returned, <<net, sta>>
    seltime,      \* select_random_station: the clock when is_operating read it
    wincfg,       \* request window: global_span, minreqlen, maxreqlen
    winres,       \* request window: what _get_random_request_interval() did
    inst,         \* probe: requestpar, status, meta_time, wave_time of the instance
    logfiles,     \* probe: the lines of log/<net>/<sta>/<year>_<net.sta>.dat
    year,         \* probe: datetime.now().year
    probe,        \* probe: the last call of the cycle and what it did
    gmaxage,      \* guard: the maxage run() was called with, <<>> for None
    pidfile,      \* guard: the file EidaAvailability.pid: <<>> or <<[pid, mtime]>>
    ppc,          \* guard: where each invocation of run() stands
    ptarget,      \* guard: the pid each invocation read from the pid file
    ptrace,       \* guard: what each invocation has done so far
    perr,         \* guard: the exception that ended each invocation
    iservers,     \* inventory test: EidaInventory.servers
    isnets,       \* inventory test: EidaInventory.snets, <<>> before it is set
    ilog,         \* inventory test: the lines Logtext.write() put in the result log
    icall,        \* inventory test: the last call and what it was answered
    iconfig,      \* inventory test: the items of SERVER_REFERENCE_NETWORKS
    irnets,       \* inventory test: EidaInventory.rnets, <<>> before it is set
    imissing,     \* inventory test: EidaInventory.missing_ref_networks
    istage        \* inventory test: where run() stands

cacheVars == <<now, cfg, slist_cache, flagfile, res, consumed>>
samplerVars == <<pc, slist, selsta, seltime>>
windowVars == <<wincfg, winres>>
\* the variables of the components other than the inventory cache and the
\* station sampler
probeVars == <<inst, logfiles, year, probe>>
guardVars == <<gmaxage, pidfile, ppc, ptarget, ptrace, perr>>
invVars == <<iservers, isnets, ilog, icall, iconfig, irnets, imissing, istage>>
extraVars == <<windowVars, probeVars, guardVars, invVars>>
vars == <<cacheVars, samplerVars, extraVars>>

(***************************************************************************)
(* Bounds of the model.                                                    *)
(***************************************************************************)
\* the clock runs from 0 to MaxTime
MaxTime == 4
\* a request to the routing service takes 0..MaxDur clock ticks
MaxDur == 1
\* maxreqlen is drawn from 1..MaxReqLen seconds
MaxReqLen == 4
\* _get_random_request_interval() is called at most MaxCalls times
MaxCalls == 2
\* run() is started at most MaxCycles times
MaxCycles == 2
\* NumProcs invocations of run() are started on the host
NumProcs == 2

(***************************************************************************)
(* Inventories the routing service can answer with.                        *)
(***************************************************************************)
None == <<>>

Some(v) == <<v>>

Station(code, end_date) == [code |-> code, end_date |-> end_date]

Network(code, stations) == [code |-> code, stations |-> stations]

InvEmpty == <<>>

InvOneNet == << Network("GR", << Station("BFO", None) >>) >>

InvTwoNets ==
    << Network("GR", << Station("BFO", None), Station("WET", Some(1)) >>),
       Network("NL", << Station("HGN", None) >>) >>

\* the same network code delivered by two servers as two network objects
InvSplitNet ==
    << Network("GR", << Station("WET", Some(1)) >>),
       Network("GR", << Station("BFO", None), Station("WET", None) >>) >>

InvThreeNets ==
    << Network("GR", << Station("BFO", Some(1)), Station("BFO", None) >>),
       Network("NL", << Station("HGN", Some(3)) >>),
       Network("CH", << Station("DAVOX", Some(2)) >>) >>

Inventories == {InvEmpty, InvOneNet, InvTwoNets, InvSplitNet, InvThreeNets}

NetCodes == {"GR", "NL", "CH"}

(***************************************************************************)
(* obspy's Inventory.get_contents() and Inventory.select(), as far as the  *)
(* probe uses them.                                                        *)
(***************************************************************************)
\* inv.get_contents()['networks']: one code per network object
contents_networks(inv) == [i \in 1..Len(inv) |-> inv[i].code]

\* set(inv.get_contents()['stations']), each entry split into (net, sta)
contents_stations(inv) ==
    UNION { { <<inv[i].code, inv[i].stations[j].code>> :
                j \in 1..Len(inv[i].stations) } : i \in 1..Len(inv) }

Range(seq) == { seq[i] : i \in 1..Len(seq) }

(***************************************************************************)
(* RetryManager                                                            *)
(***************************************************************************)
\* try_failed(): touch the flag file; the result is the file afterwards
try_failed(t) == Some([mtime |-> t])

\* new_retry() leaving the flag file in place when it allows a retry
new_retry_keeps_flag(flag, t) ==
    IF flag = None
    THEN [ret |-> TRUE, flag |-> flag]
    ELSE LET fileage == t - flag[1].mtime
         IN  [ret |-> (fileage > cfg.inv_update_waittime), flag |-> flag]

\* new_retry() with the >= comparison in place of >
new_retry_at_waittime(flag, t) ==
    IF flag = None
    THEN [ret |-> TRUE, flag |-> flag]
    ELSE LET fileage == t - flag[1].mtime
             retry == (fileage >= cfg.inv_update_waittime)
         IN  [ret |-> retry, flag |-> IF retry THEN None ELSE flag]

\* new_retry(): the value returned and the flag file afterwards
new_retry(flag, t) ==
    IF flag = None
    THEN [ret |-> TRUE, flag |-> flag]
    ELSE LET fileage == t - flag[1].mtime
             retry == (fileage > cfg.inv_update_waittime)
         IN  [ret |-> retry, flag |-> IF retry THEN None ELSE flag]

(***************************************************************************)
(* EidaAvailability: the inventory cache                                   *)
(***************************************************************************)
\* number_of_networks() counting network objects instead of distinct codes
number_of_network_objects(inv) == Len(contents_networks(inv))

\* number_of_networks(inv)
number_of_networks(inv) == Cardinality(Range(contents_networks(inv)))

\* _servers_missing(inv): the reference networks absent from inv
_servers_missing(inv) ==
    { net \in cfg.reference_networks : net \notin Range(contents_networks(inv)) }

\* _get_inventory_from_service(), lines 302-313: TRUE iff no `return None`
accepted(inv) ==
    IF number_of_networks(inv) < cfg.eia_min_num_networks THEN FALSE
    ELSE IF _servers_missing(inv) # {}
         THEN cfg.ignore_missing
         ELSE TRUE

\* _get_inventory_from_service() returning the answer without storing it
_get_inventory_from_service_not_stored(answer, cache, t) ==
    IF answer = None THEN [ret |-> None, cache |-> cache]
    ELSE IF ~accepted(answer[1]) THEN [ret |-> None, cache |-> cache]
    ELSE [ret |-> answer, cache |-> cache]

\* _get_inventory_from_service() storing the answer before it is validated
_get_inventory_from_service_store_first(answer, cache, t) ==
    IF answer = None THEN [ret |-> None, cache |-> cache]
    ELSE [ret |-> IF accepted(answer[1]) THEN answer ELSE None,
          cache |-> Some([inv |-> answer[1], mtime |-> t])]

\* _get_inventory_from_service() adding the answer to the inventory stored
_get_inventory_from_service_merging(answer, cache, t) ==
    IF answer = None THEN [ret |-> None, cache |-> cache]
    ELSE IF ~accepted(answer[1]) THEN [ret |-> None, cache |-> cache]
    ELSE [ret |-> answer,
          cache |-> Some([inv |-> IF cache = None THEN answer[1]
                                  ELSE cache[1].inv \o answer[1],
                          mtime |-> t])]

\* _get_inventory_from_service(): `answer` is what roc.get_stations() gives
\* (None: it raised), t the clock when it has answered; the result is the
\* value returned and the cache file afterwards
_get_inventory_from_service(answer, cache, t) ==
    IF answer = None THEN [ret |-> None, cache |-> cache]
    ELSE IF ~accepted(answer[1]) THEN [ret |-> None, cache |-> cache]
    ELSE [ret |-> answer, cache |-> Some([inv |-> answer[1], mtime |-> t])]

\* _get_inventory_from_cache() that never overrides the age check
_get_inventory_from_cache_no_override(cache, t, overrideage) ==
    IF cache = None THEN None
    ELSE IF t - cache[1].mtime > cfg.maxcacheage THEN None
    ELSE Some(cache[1].inv)

\* _get_inventory_from_cache() taking a file of age maxcacheage for too old
_get_inventory_from_cache_old_at_maxcacheage(cache, t, overrideage) ==
    IF cache = None THEN None
    ELSE LET fileage == t - cache[1].mtime
         IN  IF fileage >= cfg.maxcacheage /\ ~overrideage THEN None
             ELSE Some(cache[1].inv)

\* _get_inventory_from_cache(overrideage)
_get_inventory_from_cache(cache, t, overrideage) ==
    IF cache = None THEN None
    ELSE LET fileage == t - cache[1].mtime
         IN  IF fileage > cfg.maxcacheage /\ ~overrideage THEN None
             ELSE Some(cache[1].inv)

\* get_inventory(), lines 352-357, reading the cache with the age check on
forced_read_honoring_age(force_cache, cache, t) ==
    IF force_cache THEN _get_inventory_from_cache(cache, t, FALSE) ELSE None

\* get_inventory(), lines 352-357: the inventory returned early, None when
\* the call goes on to line 359
forced_read(force_cache, cache, t) ==
    IF force_cache THEN _get_inventory_from_cache(cache, t, TRUE) ELSE None

\* get_inventory(force_cache).  Inputs: the cache and flag files and the
\* clock when it is called, what the routing service would answer (None: the
\* request raises) and how long the answer takes.  Result: the value returned
\* (None is Python's None), the two files and the clock afterwards, and what
\* happened on the way: the gate's answer ("skipped" when new_retry() was not
\* called), the number of requests sent to the service and how the fetch
\* ended ("none" when no request was sent).
get_inventory(force_cache, cache, flag, t, answer, dur) ==
    LET forced == forced_read(force_cache, cache, t)
    IN
    IF forced # None
    THEN [ret |-> forced, cache |-> cache, flag |-> flag, now |-> t,
          gate |-> "skipped", requests |-> 0, fetch |-> "none"]
    ELSE
    LET gate == new_retry(flag, t)
        cached == IF gate.ret
                  THEN _get_inventory_from_cache(cache, t, FALSE)
                  ELSE _get_inventory_from_cache(cache, t, TRUE)
        gatename == IF gate.ret THEN "allow" ELSE "deny"
    IN
    IF cached # None
    THEN [ret |-> cached, cache |-> cache, flag |-> gate.flag, now |-> t,
          gate |-> gatename, requests |-> 0, fetch |-> "none"]
    ELSE
    LET newinv == _get_inventory_from_service(answer, cache, t + dur)
    IN
    IF newinv.ret = None
    THEN [ret |-> _get_inventory_from_cache(newinv.cache, t + dur, TRUE),
          cache |-> newinv.cache, flag |-> try_failed(t + dur),
          now |-> t + dur, gate |-> gatename, requests |-> 1,
          fetch |-> IF answer = None THEN "transport" ELSE "rejected"]
    ELSE [ret |-> newinv.ret, cache |-> newinv.cache, flag |-> gate.flag,
          now |-> t + dur, gate |-> gatename, requests |-> 1,
          fetch |-> "accepted"]

(***************************************************************************)
(* The record `res` of the last call.                                      *)
(*   op         the method called                                          *)
(*   force      get_inventory's force_cache argument                       *)
(*   t0, t1     the clock when the call began and when it returned         *)
(*   cache0     the cache file when the call began                         *)
(*   flag0      the flag file when the call began                          *)
(*   consumed0  the history variable `consumed` when the call began        *)
(*   gate       "allow"/"deny": what new_retry() returned; "skipped": it   *)
(*              was not called                                             *)
(*   requests   the number of requests sent to the routing service         *)
(*   answer     the inventory the service answered with (None: no request  *)
(*              or the request raised)                                     *)
(*   fetch      "none", "transport", "rejected" or "accepted"              *)
(*   ret        the value returned: an inventory or None (get_inventory)   *)
(*   raised     the exception the call ended with ("none": it returned)    *)
(***************************************************************************)
NoCall ==
    [op |-> "none", force |-> FALSE, t0 |-> 0, t1 |-> 0, cache0 |-> None,
     flag0 |-> None, consumed0 |-> FALSE, gate |-> "skipped", requests |-> 0,
     answer |-> None, fetch |-> "none", ret |-> None, raised |-> "none"]

CallRecord(force_cache, answer, out) ==
    [op |-> "get_inventory", force |-> force_cache, t0 |-> now, t1 |-> out.now,
     cache0 |-> slist_cache, flag0 |-> flagfile, consumed0 |-> consumed,
     gate |-> out.gate, requests |-> out.requests,
     answer |-> IF out.requests = 0 THEN None ELSE answer,
     fetch |-> out.fetch, ret |-> out.ret, raised |-> "none"]

\* the history variable after a call that left the flag file as `flag`
Consumed(flag) ==
    IF flag = None THEN consumed \/ flagfile # None ELSE FALSE

\* Age(file, t): the age of a file at clock t, None when it does not exist
Age(file, t) ==
    IF file = None THEN None ELSE Some(t - file[1].mtime)

(***************************************************************************)
(* Configurations                                                          *)
(***************************************************************************)
\* large_networks: network code -> acceptance probability in percent
LargeNetworks == { [n \in {} |-> 0], [n \in {"NL"} |-> 50], [n \in {"GR"} |-> 0] }

\* the parameters of EidaAvailability.__init__ the model depends on; the
\* ages are short enough for the clock to pass them
Configs ==
    { c \in [maxcacheage : {1, 2},
             inv_update_waittime : {1, 2},
             eia_min_num_networks : {1, 2},
             reference_networks : {{}, {"GR", "NL"}},
             ignore_missing : BOOLEAN,
             exclude_networks : {{}},
             large_networks : {[n \in {} |-> 0]}] :
        c.maxcacheage # c.inv_update_waittime }

(***************************************************************************)
(* EidaAvailability: the request window                                    *)
(*                                                                         *)
(* Times of global_span are counted in ticks, TicksPerSecond to a second,  *)
(* so that the span's ends and its length need not be whole seconds;       *)
(* minreqlen, maxreqlen and the numbers drawn are whole seconds.           *)
(***************************************************************************)
TicksPerSecond == 2

\* np.random.randint(low, high): the values it can return; when there is
\* none it raises ValueError
randint(low, high) == low..(high - 1)

\* _get_random_request_length() drawing from 0..randspan, randspan included
request_lengths_inclusive(c) ==
    { c.minreqlen + k : k \in randint(0, (c.maxreqlen - c.minreqlen) + 1) }

\* _get_random_request_length(): the lengths it can return, in seconds
request_lengths(c) ==
    { c.minreqlen + k : k \in randint(0, c.maxreqlen - c.minreqlen) }

\* _get_random_request_interval(), lines 449-453: the windows (randstart,
\* randend) it can return for a request length, in ticks; int() cuts the
\* span's length down to whole seconds
request_intervals(c, reqspan) ==
    LET totalspan == (c.spanlen \div TicksPerSecond) - reqspan
    IN  { <<c.spanstart + k * TicksPerSecond,
            c.spanstart + k * TicksPerSecond + reqspan * TicksPerSecond>> :
            k \in randint(0, totalspan) }

\* what winres holds before any call
NoWindow == [ret |-> None, raised |-> "none", calls |-> 0]

\* a call of _get_random_request_interval()
PickWindow ==
    /\ winres.calls < MaxCalls
    /\ IF request_lengths(wincfg) = {}
       THEN winres' = [ret |-> None, raised |-> "ValueError",
                       calls |-> winres.calls + 1]
       ELSE \E reqspan \in request_lengths(wincfg) :
               IF request_intervals(wincfg, reqspan) = {}
               THEN winres' = [ret |-> None, raised |-> "ValueError",
                               calls |-> winres.calls + 1]
               ELSE \E w \in request_intervals(wincfg, reqspan) :
                       winres' = [ret |-> Some(w), raised |-> "none",
                                  calls |-> winres.calls + 1]
    /\ UNCHANGED wincfg

\* global_span, minreqlen and maxreqlen as __init__ (lines 195-200) sets
\* them: spans of 2 to 4.5 seconds beginning on or off a whole second
WindowConfigs ==
    [spanstart : 0..1, spanlen : 4..9, minreqlen : 1..2, maxreqlen : 1..MaxReqLen]

(***************************************************************************)
(* statuscodes                                                             *)
(***************************************************************************)
STATUS_OK == 0
STATUS_NOSERV == 1
STATUS_METAFAIL == 2
STATUS_NODATA == 3
STATUS_FRAGMENT == 4
STATUS_INCOMPLETE == 5
STATUS_RESTFAIL == 6

error_names ==
    [c \in STATUS_OK..STATUS_RESTFAIL |->
        CASE c = STATUS_OK -> "OK"
          [] c = STATUS_NOSERV -> "NOSERV"
          [] c = STATUS_METAFAIL -> "METAFAIL"
          [] c = STATUS_NODATA -> "NODATA"
          [] c = STATUS_FRAGMENT -> "FRAGMENT"
          [] c = STATUS_INCOMPLETE -> "INCOMPL"
          [] c = STATUS_RESTFAIL -> "RESTFAIL"]

(***************************************************************************)
(* EidaAvailability: one probe cycle                                       *)
(*                                                                         *)
(* A channel 'net.sta.loc.cha' is the sequence of 'net.sta', the location  *)
(* and the letters of the channel code, so that the code's prefix can be   *)
(* cut off as the program does.                                            *)
(***************************************************************************)
Channel(netsta, a, b, c) == <<netsta, "", a, b, c>>

\* chan.split('.')[-1]
curchan(chan) == SubSeq(chan, 3, Len(chan))

\* c[0:2]
prefix2(code) == SubSeq(code, 1, 2)

wanted_channels == {<<"H", "H", "Z">>, <<"B", "H", "Z">>}

ProbeStations == {"GR.A", "NL.B"}
Years == {0, 1}
LogFiles == ProbeStations \X Years

\* get_contents()['channels'] of the metadata a station can be answered with
ChannelLists(netsta) ==
    IF netsta = "GR.A"
    THEN { <<>>,
           <<Channel(netsta, "H", "H", "N"), Channel(netsta, "L", "H", "Z"),
             Channel(netsta, "B", "H", "Z")>> }
    ELSE { <<Channel(netsta, "L", "H", "Z")>>,
           <<Channel(netsta, "L", "H", "Z"), Channel(netsta, "H", "H", "Z")>> }

\* select_random_station_channel() taking the first listed channel whatever
\* its code
selectable_channels_any(channels) ==
    { channels[i] : i \in DOMAIN channels }

\* select_random_station_channel(): the channels it can return; none when it
\* returns None
selectable_channels(channels) ==
    LET wchan == { prefix2(c) : c \in wanted_channels }
    IN  { chan \in Range(channels) : prefix2(curchan(chan)) \in wchan }

\* the instance as __init__ leaves it
FreshInstance ==
    [requestpar |-> None, status |-> None, meta_time |-> None, wave_time |-> None]

\* one line of a result file
LogLine(status, reqspan, channel, tail) ==
    [status |-> status, reqstart |-> reqspan[1],
     reqlen |-> reqspan[2] - reqspan[1], channel |-> channel, tail |-> tail]

\* logresult() writing the latencies whether or not it was given an exception
logtail_latencies_only(i, exc) ==
    <<IF i.meta_time = None THEN "-" ELSE "meta_time",
      IF i.wave_time = None THEN "-" ELSE "wave_time">>

\* logresult(), lines 667-682: the end of the line, the two latencies or
\* repr(exc)
logtail(i, exc) ==
    IF exc = None
    THEN <<IF i.meta_time = None THEN "-" ELSE "meta_time",
           IF i.wave_time = None THEN "-" ELSE "wave_time">>
    ELSE <<exc[1]>>

\* open(outfile, 'w') and write
write_truncating(content, line) == <<line>>

\* open(outfile, 'a') and write, lines 675-683
write_appending(content, line) == Append(content, line)

\* logresult(exc, sta, reqspan): the result files after the call
logresult(i, files, yr, exc, sta, reqspan) ==
    LET netsta == IF i.requestpar = None THEN sta ELSE i.requestpar[1].sta
        span == IF i.requestpar = None THEN reqspan ELSE i.requestpar[1].reqspan
        channel == IF i.requestpar = None THEN <<"unknown">>
                   ELSE i.requestpar[1].selchan
    IN  [files EXCEPT ![<<netsta, yr>>] =
            write_appending(@, LogLine(error_names[i.status[1]], span, channel,
                                       logtail(i, exc)))]

\* the samples trc.data can hold after remove_response()
SampleData == [1..2 -> {"num", "NaN"}]

\* trc.data[0] != trc.data[0], which only NaN satisfies
is_nan(x) == x = "NaN"

\* what get_waveforms(), trim(), remove_response() and the samples can turn
\* out to be for a request of reqlen ticks; datalen, the trimmed trace's
\* delta * len(data), is counted in hundredths of a tick; trimfail says that
\* trc.trim() raises
WaveOutcomes(reqlen) ==
    { [raised |-> TRUE, ntraces |-> 0, datalen |-> 0, restfail |-> FALSE,
       data |-> <<"num", "num">>, trimfail |-> FALSE],
      [raised |-> FALSE, ntraces |-> 0, datalen |-> 0, restfail |-> FALSE,
       data |-> <<"num", "num">>, trimfail |-> FALSE],
      [raised |-> FALSE, ntraces |-> 1, datalen |-> 0, restfail |-> FALSE,
       data |-> <<"num", "num">>, trimfail |-> TRUE] }
    \cup [raised : {FALSE}, ntraces : {2}, datalen : {50 * reqlen, 100 * reqlen},
          restfail : {FALSE}, data : {<<"num", "num">>, <<"NaN", "num">>},
          trimfail : {FALSE}]
    \cup [raised : {FALSE}, ntraces : {1}, datalen : {99 * reqlen - 1, 99 * reqlen},
          restfail : BOOLEAN, data : SampleData, trimfail : {FALSE}]

\* process_request(), lines 596-614: TRUE iff an exception leaves the
\* decision tree, of trc.trim() or of datalen/reqlen with reqlen = 0
classification_raises(w, reqlen) ==
    ~w.raised /\ w.ntraces = 1 /\ (w.trimfail \/ reqlen = 0)

\* the decision tree of process_request() asking for the duration before the
\* number of traces
classify_duration_first(w, reqlen) ==
    IF w.raised THEN STATUS_NODATA
    ELSE IF w.ntraces < 1 THEN STATUS_NODATA
    ELSE IF w.datalen < 99 * reqlen THEN STATUS_INCOMPLETE
    ELSE IF w.ntraces > 1 THEN STATUS_FRAGMENT
    ELSE IF w.restfail THEN STATUS_RESTFAIL
    ELSE IF is_nan(w.data[1]) THEN STATUS_METAFAIL
    ELSE STATUS_OK

\* the decision tree of process_request(), lines 596-629;
\* (datalen/reqlen) < 0.99 with datalen in hundredths of a tick
classify(w, reqlen) ==
    IF w.raised THEN STATUS_NODATA
    ELSE IF w.ntraces < 1 THEN STATUS_NODATA
    ELSE IF w.ntraces > 1 THEN STATUS_FRAGMENT
    ELSE IF w.datalen < 99 * reqlen THEN STATUS_INCOMPLETE
    ELSE IF w.restfail THEN STATUS_RESTFAIL
    ELSE IF is_nan(w.data[1]) THEN STATUS_METAFAIL
    ELSE STATUS_OK

\* what probe holds before any call
NoProbe ==
    [stage |-> "idle", cycles |-> 0, op |-> "none", raised |-> "none",
     sta |-> None, reqspan |-> None, meta_requests |-> 0, meta_raised |-> FALSE,
     channels |-> <<>>, ret |-> None, wave_requests |-> 0, wave |-> None,
     status |-> None]

\* run(), line 841: a new EidaAvailability for the cycle
RunStart ==
    /\ probe.stage \in {"idle", "done", "error"}
    /\ probe.cycles < MaxCycles
    /\ inst' = FreshInstance
    /\ probe' = [NoProbe EXCEPT !.stage = "fresh", !.cycles = probe.cycles + 1]
    /\ UNCHANGED <<logfiles, year>>

\* the windows _get_random_request_interval() can return
request_windows(c) ==
    UNION { request_intervals(c, reqspan) : reqspan \in request_lengths(c) }

\* random_request(); select_random_station() returns a station or raises
RandomRequest ==
    /\ probe.stage = "fresh"
    /\ \E sel \in {None} \cup { Some(x) : x \in ProbeStations } :
        IF sel = None
        THEN /\ probe' = [probe EXCEPT !.stage = "error", !.op = "random_request",
                                       !.raised = "AttributeError"]
             /\ UNCHANGED <<inst, logfiles>>
        ELSE IF request_windows(wincfg) = {}
        THEN /\ probe' = [probe EXCEPT !.stage = "error", !.op = "random_request",
                                       !.raised = "ValueError", !.sta = sel]
             /\ UNCHANGED <<inst, logfiles>>
        ELSE \E reqspan \in request_windows(wincfg) :
             LET called == [probe EXCEPT !.stage = "done", !.op = "random_request",
                                         !.sta = sel, !.reqspan = Some(reqspan),
                                         !.meta_requests = 1]
             IN  \/ \* get_station_meta(): the request raises
                    LET failed == [inst EXCEPT !.status = Some(STATUS_NOSERV)]
                    IN  /\ inst' = failed
                        /\ logfiles' = logresult(failed, logfiles, year,
                                                 Some("repr(e)"), sel[1], reqspan)
                        /\ probe' = [called EXCEPT !.meta_raised = TRUE]
                 \/ \E channels \in ChannelLists(sel[1]) :
                    LET timed == [inst EXCEPT !.meta_time = Some("measured")]
                    IN  IF channels = <<>> \/ selectable_channels(channels) = {}
                        THEN /\ inst' = timed
                             /\ probe' = [called EXCEPT !.channels = channels]
                             /\ UNCHANGED logfiles
                        ELSE \E selchan \in selectable_channels(channels) :
                             /\ inst' = [timed EXCEPT !.requestpar =
                                            Some([sta |-> sel[1], selchan |-> selchan,
                                                  stainv |-> channels,
                                                  reqspan |-> reqspan])]
                             /\ probe' = [called EXCEPT !.stage = "requested",
                                                        !.channels = channels,
                                                        !.ret = Some(selchan)]
                             /\ UNCHANGED logfiles
    /\ UNCHANGED year

\* process_request(*rr) with the result of random_request()
ProcessRequest ==
    /\ probe.stage = "requested"
    /\ LET reqspan == probe.reqspan[1]
           reqlen == reqspan[2] - reqspan[1]
       IN  \E w \in WaveOutcomes(reqlen) :
           LET status == classify(w, reqlen)
               timed == [inst EXCEPT !.wave_time = IF w.raised THEN @
                                                  ELSE Some("measured")]
               after == [timed EXCEPT !.status = Some(status)]
           IN  IF classification_raises(w, reqlen)
               THEN /\ inst' = timed
                    /\ probe' = [probe EXCEPT !.stage = "error",
                                              !.op = "process_request",
                                              !.wave_requests = 1, !.wave = Some(w),
                                              !.raised = "Exception"]
                    /\ UNCHANGED logfiles
               ELSE /\ inst' = after
                    /\ logfiles' = logresult(after, logfiles, year, None, None, None)
                    /\ probe' = [probe EXCEPT !.stage = "done",
                                              !.op = "process_request",
                                              !.wave_requests = 1, !.wave = Some(w),
                                              !.status = Some(status)]
    /\ UNCHANGED year

\* the year turns
NewYear ==
    /\ year + 1 \in Years
    /\ year' = year + 1
    /\ UNCHANGED <<inst, logfiles, probe>>

\* the span of 3 seconds and the lengths the probe draws its windows from
ProbeWindowConfig ==
    [spanstart |-> 1, spanlen |-> 7, minreqlen |-> 1, maxreqlen |-> 2]

\* the probe when the model is about another component
ProbeIdle ==
    /\ inst = FreshInstance
    /\ logfiles = [f \in LogFiles |-> <<>>]
    /\ year = 0
    /\ probe = NoProbe

(***************************************************************************)
(* DoubleProcessCheck and run()                                            *)
(*                                                                         *)
(* Invocations of run() are processes 1..NumProcs of one host; they share  *)
(* the pid file and the clock, and each step is one system call of         *)
(* should_exit() or release().  Pid 0 is a process of an earlier run that  *)
(* is gone.                                                                *)
(***************************************************************************)
Procs == 1..NumProcs

\* the process still runs
Running(q) == q \in Procs /\ ppc[q] \in {"exists", "stat", "read", "term", "kill",
                                       "remove", "create", "probe", "release",
                                       "relremove"}

\* os.kill(pid, SIGKILL) before os.kill(pid, SIGTERM)
kill_signals_reversed == <<"SIGKILL", "SIGTERM">>

\* process_active(), lines 728-730: the signals in the order they are sent
kill_signals == <<"SIGTERM", "SIGKILL">>

\* fileage > self.maxage
marker_active_reversed(fileage, maxage) == fileage > maxage

\* process_active(), line 718: fileage < self.maxage
marker_active(fileage, maxage) == fileage < maxage

\* what a signal can do to the process it reaches: SIGKILL ends it, SIGTERM
\* ends it unless it is wedged
AfterSignal(sig) == IF sig = "SIGKILL" THEN {"killed"} ELSE {"killed", "alive"}

Did(p, what) == ptrace' = [ptrace EXCEPT ![p] = Append(@, what)]

Goto(p, where) == ppc' = [ppc EXCEPT ![p] = where]

\* the invocation ends with an unhandled exception
Crash(p, exc) ==
    /\ ppc' = [ppc EXCEPT ![p] = "crashed"]
    /\ perr' = [perr EXCEPT ![p] = exc]

\* run() is started, line 827
GuardStart(p) ==
    /\ ppc[p] = "off"
    /\ Goto(p, "exists")
    /\ UNCHANGED <<now, gmaxage, pidfile, ptarget, ptrace, perr>>

\* process_active(), lines 715-716: os.path.exists(self.pidfile)
PidfileExists(p) ==
    /\ ppc[p] = "exists"
    /\ IF pidfile = None
       THEN Goto(p, "create") /\ Did(p, "absent")
       ELSE Goto(p, "stat") /\ Did(p, "present")
    /\ UNCHANGED <<now, gmaxage, pidfile, ptarget, perr>>

\* process_active(), lines 717-719: the age of the pid file against maxage;
\* when it is younger should_exit() returns True and run() exits (line 830)
PidfileStat(p) ==
    /\ ppc[p] = "stat"
    /\ IF pidfile = None
       THEN Crash(p, "FileNotFoundError") /\ UNCHANGED ptrace
       ELSE IF gmaxage = None
       THEN Crash(p, "TypeError") /\ UNCHANGED ptrace
       ELSE IF marker_active(now - pidfile[1].mtime, gmaxage[1])
       THEN Goto(p, "exited") /\ Did(p, "young") /\ UNCHANGED perr
       ELSE Goto(p, "read") /\ Did(p, "stale") /\ UNCHANGED perr
    /\ UNCHANGED <<now, gmaxage, pidfile, ptarget>>

\* process_active(), lines 720-724: the pid is read from the file; when the
\* file is gone open() raises, and so does os.remove() in the handler
PidfileRead(p) ==
    /\ ppc[p] = "read"
    /\ IF pidfile = None
       THEN Crash(p, "FileNotFoundError") /\ UNCHANGED ptarget
       ELSE /\ ptarget' = [ptarget EXCEPT ![p] = Some(pidfile[1].pid)]
            /\ Goto(p, "term")
            /\ UNCHANGED perr
    /\ UNCHANGED <<now, gmaxage, pidfile, ptrace>>

\* os.kill(pid, sig): the processes' positions after the signal, or none when
\* no such process exists and os.kill() raises
Signalled(q, sig) ==
    IF Running(q)
    THEN { [ppc EXCEPT ![q] = IF o = "killed" THEN "killed" ELSE @] :
              o \in AfterSignal(sig) }
    ELSE {}

\* process_active(), line 728: the first signal; when os.kill() raises the
\* handler of line 731 skips the sleep and the second signal
KillTerm(p) ==
    /\ ppc[p] = "term"
    /\ LET sig == kill_signals[1]
           q == ptarget[p][1]
       IN  IF Signalled(q, sig) = {}
           THEN Goto(p, "remove") /\ Did(p, "no process")
           ELSE /\ \E after \in Signalled(q, sig) :
                      ppc' = [after EXCEPT ![p] = "kill"]
                /\ Did(p, sig)
    /\ UNCHANGED <<now, gmaxage, pidfile, ptarget, perr>>

\* process_active(), lines 729-730: after time.sleep(5), the second signal
KillKill(p) ==
    /\ ppc[p] = "kill"
    /\ LET sig == kill_signals[2]
           q == ptarget[p][1]
       IN  IF Signalled(q, sig) = {}
           THEN Goto(p, "remove") /\ Did(p, "no process")
           ELSE /\ \E after \in Signalled(q, sig) :
                      ppc' = [after EXCEPT ![p] = "remove"]
                /\ Did(p, sig)
    /\ UNCHANGED <<now, gmaxage, pidfile, ptarget, perr>>

\* process_active(), line 733: os.remove(self.pidfile)
PidfileRemove(p) ==
    /\ ppc[p] = "remove"
    /\ IF pidfile = None
       THEN Crash(p, "FileNotFoundError") /\ UNCHANGED <<pidfile, ptrace>>
       ELSE /\ pidfile' = None
            /\ Goto(p, "create")
            /\ Did(p, "remove")
            /\ UNCHANGED perr
    /\ UNCHANGED <<now, gmaxage, ptarget>>

\* create_pidfile(), after which should_exit() returns False
CreatePidfile(p) ==
    /\ ppc[p] = "create"
    /\ pidfile' = Some([pid |-> p, mtime |-> now])
    /\ Goto(p, "probe")
    /\ Did(p, "create")
    /\ UNCHANGED <<now, gmaxage, ptarget, perr>>

\* run(), lines 832-848: the configuration is loaded and the probe runs; an
\* exception of either ends run() before release()
RunBody(p) ==
    /\ ppc[p] = "probe"
    /\ \/ Goto(p, "release") /\ UNCHANGED perr
       \/ Crash(p, "Exception")
    /\ Did(p, "probe")
    /\ UNCHANGED <<now, gmaxage, pidfile, ptarget>>

\* release(), line 747: os.path.exists(self.pidfile)
ReleaseExists(p) ==
    /\ ppc[p] = "release"
    /\ IF pidfile = None THEN Goto(p, "done") ELSE Goto(p, "relremove")
    /\ UNCHANGED <<now, gmaxage, pidfile, ptarget, ptrace, perr>>

\* release(), line 748: os.remove(self.pidfile)
ReleaseRemove(p) ==
    /\ ppc[p] = "relremove"
    /\ IF pidfile = None
       THEN Crash(p, "FileNotFoundError") /\ UNCHANGED <<pidfile, ptrace>>
       ELSE /\ pidfile' = None
            /\ Goto(p, "done")
            /\ Did(p, "release")
            /\ UNCHANGED perr
    /\ UNCHANGED <<now, gmaxage, ptarget>>

\* the guard when the model is about another component
GuardIdle ==
    /\ gmaxage = Some(1)
    /\ pidfile = None
    /\ ppc = [p \in Procs |-> "off"]
    /\ ptarget = [p \in Procs |-> None]
    /\ ptrace = [p \in Procs |-> <<>>]
    /\ perr = [p \in Procs |-> "none"]

(***************************************************************************)
(* EidaInventory: the direct requests to the servers                       *)
(***************************************************************************)
\* ref_networks_servers, a dict from reference network to server, as the
\* sequence of its items; two networks can name the same server
RefNetworksServers ==
    { <<>>,
      << <<"GR", "BGR">> >>,
      << <<"GR", "BGR">>, <<"NL", "ODC">> >>,
      << <<"GR", "BGR">>, <<"NL", "ODC">>, <<"SX", "BGR">> >> }

\* __init__(), line 185: list(ref_networks_servers.values())
server_list(items) == [i \in DOMAIN items |-> items[i][2]]

\* set(sinv.get_contents()['networks']) of the answers a server can give
ServerNetworks == { {}, {"GR"}, {"NL", "GR"} }

\* a request to a server raises (<<>>) or is answered with networks
ServerAnswers == {None} \cup { Some(n) : n \in ServerNetworks }

Reading(srv) == [text |-> "    reading inventory from server", arg |-> srv]

Failed(exc) == [text |-> "        FAILED:", arg |-> exc]

\* the loop of server_request() left at the first failing server
after_failure_break(i, n) == n + 1

\* server_request(), line 221: continue with the next server
after_failure(i, n) == i + 1

RECURSIVE server_loop(_, _, _, _)
\* server_request(), lines 214-223: the loop from its i-th pass on; acc holds
\* snets, the result log and the servers requested so far
server_loop(servers, answers, i, acc) ==
    IF i > Len(servers) THEN acc
    ELSE LET asked == [acc EXCEPT !.log = Append(@, Reading(servers[i])),
                                  !.requests = Append(@, servers[i])]
         IN  IF answers[i] = None
             THEN server_loop(servers, answers, after_failure(i, Len(servers)),
                              [asked EXCEPT !.log = Append(@, Failed("repr(e)"))])
             ELSE server_loop(servers, answers, i + 1,
                              [asked EXCEPT !.snets = @ \cup answers[i][1]])

\* what icall holds before any call
NoInventoryCall ==
    [op |-> "none", calls |-> 0, servers |-> <<>>, answers |-> <<>>,
     requests |-> <<>>, loglen0 |-> 0, ret |-> None]

\* server_request(servers): servers is None or replaces self.servers
ServerRequest ==
    /\ icall.calls < MaxCalls
    /\ \E arg \in {None, Some(<<"ODC">>)} :
       LET servers == IF arg = None THEN iservers ELSE arg[1]
       IN  \E answers \in [DOMAIN servers -> ServerAnswers] :
           LET out == server_loop(servers, answers, 1,
                                  [snets |-> {}, log |-> ilog, requests |-> <<>>])
           IN  /\ iservers' = servers
               /\ isnets' = Some(out.snets)
               /\ ilog' = out.log
               /\ icall' = [op |-> "server_request", calls |-> icall.calls + 1,
                            servers |-> servers, answers |-> answers,
                            requests |-> out.requests, loglen0 |-> Len(ilog),
                            ret |-> Some(out.snets)]
    /\ UNCHANGED <<iconfig, irnets, imissing>>

\* the order sorted() puts the network codes in
NetworkOrder == <<"CH", "GR", "NL", "SX">>

\* sorted() of distinct network codes
sorted(nets) == SelectSeq(NetworkOrder, LAMBDA n : n \in nets)

\* list(config.get_networks_servers().keys()), eida_config.py line 388
reference_networks(items) == [i \in DOMAIN items |-> items[i][1]]

\* set(rinv.get_contents()['networks']) of the answers the routing client
\* can give
RoutedNetworks == { {}, {"GR"}, {"GR", "CH"} }

RoutingAnswers == {None} \cup { Some(n) : n \in RoutedNetworks }

Started == [text |-> "eida_inventory_test.py started at", arg |-> "level"]

ReadingRouting == [text |-> "    reading inventory from routing client", arg |-> ""]

Separator == [text |-> "==========", arg |-> ""]

NetsLine(text, nets) == [text |-> text, nets |-> nets]

\* routing_request() going on after a failed request
after_routing_failure_goes_on == "routed"

\* routing_request(), line 256: exit()
after_routing_failure == "exited"

\* check4missing_networks() looking the reference networks up in snets
check4missing_networks_in_snets(reference, rnets, snets) ==
    sorted({ reference[i] : i \in DOMAIN reference } \ snets)

\* check4missing_networks(), lines 260-267: the sorted list of the reference
\* networks that are not in rnets
check4missing_networks(reference, rnets, snets) ==
    sorted({ reference[i] : i \in { j \in DOMAIN reference : reference[j] \notin rnets } })

\* print_results(), lines 270-279: the lines it writes
print_results(missing, rnets, snets) ==
    (IF missing # <<>> THEN <<NetsLine("missing reference networks:", missing)>>
     ELSE <<>>)
    \o <<NetsLine("rnets", sorted(rnets)),
         NetsLine("snets", sorted(snets)),
         NetsLine("rnets-snets", sorted(rnets \ snets)),
         NetsLine("snets-rnets", sorted(snets \ rnets)),
         [text |-> "runtime", arg |-> "%3.1fs"],
         Separator>>

\* what istage holds before run() is called
NoInventoryRun == [at |-> "idle", repeats |-> 0, log0 |-> 0]

\* run(), lines 284-293: the configuration is read, a new EidaInventory is
\* made and the start of the cycle is written to the result log
InventoryRunStart ==
    /\ istage.at = "idle"
    /\ istage' = [at |-> "started", repeats |-> 0, log0 |-> Len(ilog)]
    /\ iservers' = server_list(iconfig)
    /\ isnets' = None
    /\ irnets' = None
    /\ imissing' = None
    /\ ilog' = Append(ilog, Started)
    /\ icall' = [NoInventoryCall EXCEPT !.op = "run", !.loglen0 = Len(ilog)]
    /\ UNCHANGED iconfig

\* routing_request()
RoutingRequest ==
    /\ istage.at = "served"
    /\ \E answer \in RoutingAnswers :
       IF answer = None
       THEN /\ ilog' = ilog \o <<ReadingRouting, Failed("repr(e)"), Separator>>
            /\ istage' = [istage EXCEPT !.at = after_routing_failure]
            /\ icall' = [icall EXCEPT !.op = "routing_request", !.ret = None,
                                      !.loglen0 = Len(ilog)]
            /\ UNCHANGED irnets
       ELSE /\ ilog' = Append(ilog, ReadingRouting)
            /\ istage' = [istage EXCEPT !.at = "routed"]
            /\ irnets' = answer
            /\ icall' = [icall EXCEPT !.op = "routing_request", !.ret = answer,
                                      !.loglen0 = Len(ilog)]
    /\ UNCHANGED <<iservers, isnets, iconfig, imissing>>

\* check4missing_networks(config.invtest['reference_networks']); without
\* rnets the call raises AttributeError
Check4MissingNetworks ==
    /\ istage.at \in {"routed", "checked", "printed"}
    /\ istage.at # "routed" => istage.repeats < MaxCalls
    /\ IF irnets = None
       THEN /\ istage' = [istage EXCEPT !.at = "error"]
            /\ icall' = [icall EXCEPT !.op = "check4missing_networks", !.ret = None,
                                      !.loglen0 = Len(ilog)]
            /\ UNCHANGED imissing
       ELSE LET miss == check4missing_networks(reference_networks(iconfig),
                                               irnets[1], isnets[1])
            IN  /\ imissing' = Some(miss)
                /\ istage' = IF istage.at = "routed"
                             THEN [istage EXCEPT !.at = "checked"]
                             ELSE [istage EXCEPT !.repeats = @ + 1]
                /\ icall' = [icall EXCEPT !.op = "check4missing_networks",
                                          !.ret = None, !.loglen0 = Len(ilog)]
    /\ UNCHANGED <<iservers, isnets, ilog, iconfig, irnets>>

\* print_results(runtime)
PrintResults ==
    /\ istage.at \in {"checked", "printed"}
    /\ istage.at = "printed" => istage.repeats < MaxCalls
    /\ ilog' = ilog \o print_results(imissing[1], irnets[1], isnets[1])
    /\ istage' = IF istage.at = "checked"
                 THEN [istage EXCEPT !.at = "printed"]
                 ELSE [istage EXCEPT !.repeats = @ + 1]
    /\ icall' = [icall EXCEPT !.op = "print_results", !.ret = None,
                              !.loglen0 = Len(ilog)]
    /\ UNCHANGED <<iservers, isnets, iconfig, irnets, imissing>>

\* the inventory test when the model is about another component
InventoryIdle ==
    /\ iservers = <<>>
    /\ isnets = None
    /\ ilog = <<>>
    /\ icall = NoInventoryCall
    /\ iconfig = <<>>
    /\ irnets = None
    /\ imissing = None
    /\ istage = NoInventoryRun

\* the request window when the model is about another component
WindowIdle ==
    /\ wincfg = [spanstart |-> 0, spanlen |-> 8, minreqlen |-> 1, maxreqlen |-> 3]
    /\ winres = NoWindow

ExtraIdle == WindowIdle /\ ProbeIdle /\ GuardIdle /\ InventoryIdle

(***************************************************************************)
(* Actions of the inventory cache                                          *)
(***************************************************************************)
\* time passes
Tick ==
    /\ now < MaxTime
    /\ now' = now + 1
    /\ UNCHANGED <<cfg, slist_cache, flagfile, res, consumed>>

\* what roc.get_stations() can do: raise (None) or answer with an inventory
Answers == {None} \cup { Some(inv) : inv \in Inventories }

\* a call of get_inventory(force_cache); the service's answer and the time it
\* takes are inputs only of a call that sends a request
GetInventory ==
    \E force_cache \in BOOLEAN :
        LET quiet == get_inventory(force_cache, slist_cache, flagfile, now, None, 0)
        IN  \E answer \in IF quiet.requests = 0 THEN {None} ELSE Answers,
               dur \in IF quiet.requests = 0 THEN {0} ELSE 0..MaxDur :
                LET out == get_inventory(force_cache, slist_cache, flagfile,
                                         now, answer, dur)
                IN  /\ out.now <= MaxTime
                    /\ now' = out.now
                    /\ slist_cache' = out.cache
                    /\ flagfile' = out.flag
                    /\ res' = CallRecord(force_cache, answer, out)
                    /\ consumed' = Consumed(out.flag)
                    /\ UNCHANGED cfg

\* a call of RetryManager.new_retry()
NewRetry ==
    LET out == new_retry(flagfile, now)
    IN  /\ flagfile' = out.flag
        /\ res' = [NoCall EXCEPT !.op = "new_retry", !.t0 = now, !.t1 = now,
                                 !.cache0 = slist_cache, !.flag0 = flagfile,
                                 !.consumed0 = consumed,
                                 !.gate = IF out.ret THEN "allow" ELSE "deny"]
        /\ consumed' = Consumed(out.flag)
        /\ UNCHANGED <<now, cfg, slist_cache>>

\* a call of RetryManager.try_failed()
TryFailed ==
    /\ flagfile' = try_failed(now)
    /\ res' = [NoCall EXCEPT !.op = "try_failed", !.t0 = now, !.t1 = now,
                             !.cache0 = slist_cache, !.flag0 = flagfile,
                             !.consumed0 = consumed]
    /\ consumed' = FALSE
    /\ UNCHANGED <<now, cfg, slist_cache>>

Init ==
    /\ now = 0
    /\ cfg \in Configs
    /\ slist_cache = None
    /\ flagfile = None
    /\ res = NoCall
    /\ consumed = FALSE
    /\ pc = "idle"
    /\ slist = None
    /\ selsta = None
    /\ seltime = 0
    /\ ExtraIdle

Next ==
    \/ Tick /\ UNCHANGED <<samplerVars, extraVars>>
    \/ GetInventory /\ UNCHANGED <<samplerVars, extraVars>>
    \/ NewRetry /\ UNCHANGED <<samplerVars, extraVars>>
    \/ TryFailed /\ UNCHANGED <<samplerVars, extraVars>>

Spec == Init /\ [][Next]_vars

(***************************************************************************)
(* Properties of the inventory cache and the retry gate, checked under     *)
(* Spec.                                                                   *)
(***************************************************************************)
\* the distinct network codes of an inventory
Nets(inv) == { inv[i].code : i \in 1..Len(inv) }

\* the quorum rule: enough networks, and every reference network present
\* unless missing ones are ignored
QuorumRule(inv) ==
    /\ Cardinality(Nets(inv)) >= cfg.eia_min_num_networks
    /\ (cfg.reference_networks \subseteq Nets(inv) \/ cfg.ignore_missing)

\* the last call was get_inventory() and it sent a request that raised or
\* whose answer breaks the quorum rule
FetchFailed ==
    /\ res.op = "get_inventory"
    /\ res.requests = 1
    /\ (res.answer = None \/ ~QuorumRule(res.answer[1]))

\* the flag file existed when the last call began and the gate's waiting
\* time had not passed
GateClosed0 ==
    /\ res.flag0 # None
    /\ res.t0 - res.flag0[1].mtime <= cfg.inv_update_waittime

C2_GateDeniedServesCache ==
    ( /\ res.op = "get_inventory"
      /\ ~res.force
      /\ GateClosed0
      /\ res.cache0 # None )
    => ( /\ res.ret = Some(res.cache0[1].inv)
         /\ res.requests = 0
         /\ slist_cache = res.cache0 )

C2_Witness ==
    /\ res.op = "get_inventory"
    /\ ~res.force
    /\ GateClosed0
    /\ res.cache0 # None
    /\ res.t0 - res.cache0[1].mtime > cfg.maxcacheage
    /\ res.ret = Some(res.cache0[1].inv)

\* C3: get_inventory() whose request fails or is rejected while no cache file
\* exists ends with an InventoryUnavailable error, and a call that returns
\* never returns None.
C3_UnavailableIsAnError ==
    /\ (FetchFailed /\ res.cache0 = None) => res.raised = "InventoryUnavailable"
    /\ (res.op = "get_inventory" /\ res.raised = "none") => res.ret # None

\* C4: get_inventory() sends a request to the service only if, when the call
\* began, there was no flag file or the flag file was older than the waiting
\* time.
C4_RequestOnlyWhenGateOpen ==
    (res.op = "get_inventory" /\ res.requests > 0) => ~GateClosed0

\* C5: new_retry() returns False exactly when a flag file exists whose age is
\* at most the waiting time, and True when there is no flag file or it is
\* older (new_retry() called on its own or by get_inventory()).
C5_NewRetryAnswer ==
    (res.gate # "skipped") => ((res.gate = "deny") <=> GateClosed0)

\* new_retry() called right after try_failed(): the flag's age is 0
C5_Witness ==
    /\ res.op = "new_retry"
    /\ res.flag0 = Some([mtime |-> res.t0])
    /\ res.gate = "deny"

\* a step that is a call of new_retry() following a call of new_retry() which
\* returned True and removed the flag file
RetryAfterConsumed ==
    /\ res.op = "new_retry"
    /\ res.gate = "allow"
    /\ res.flag0 # None
    /\ NewRetry

\* C6 as stated: after new_retry() has returned True because the waiting time
\* had passed, the next new_retry() returns False.
C6_GateClosesAfterRetry ==
    [][RetryAfterConsumed => res'.gate = "deny"]_vars

\* C6 as the code has it: new_retry() returning True for a flag file older
\* than the waiting time removes the file, and from then on every
\* new_retry() returns True until try_failed() is called again.
C6_GateStaysOpenAfterRetry ==
    /\ []((res.op = "new_retry" /\ res.gate = "allow") => flagfile = None)
    /\ []((res.op = "new_retry" /\ res.consumed0) => res.gate = "allow")
    /\ [][RetryAfterConsumed => res'.gate = "allow"]_vars

C6_Witness ==
    /\ res.op = "new_retry"
    /\ res.consumed0
    /\ res.flag0 = None
    /\ res.gate = "allow"
    /\ res.t0 > cfg.inv_update_waittime

\* C7: a request that raises and a request whose answer is rejected end the
\* same way: try_failed() touches the flag file, the cache file stays as it
\* was and the call returns what the cache file holds, however old it is
\* (None when there is none).
C7_FailedFetchFallsBack ==
    FetchFailed
    => ( /\ flagfile = Some([mtime |-> res.t1])
         /\ slist_cache = res.cache0
         /\ res.ret = IF res.cache0 = None THEN None
                      ELSE Some(res.cache0[1].inv) )

\* a rejected answer with a stale cache to fall back on
C7_Witness ==
    /\ FetchFailed
    /\ res.answer # None
    /\ res.cache0 # None
    /\ res.t0 - res.cache0[1].mtime > cfg.maxcacheage
    /\ res.ret = Some(res.cache0[1].inv)
    /\ res.ret # res.answer

\* C8: get_inventory(force_cache=True): with a cache file, its inventory is
\* returned whatever its age, no request is sent and neither the gate nor the
\* files are touched; without one, the call goes on to consult the gate and,
\* there being no cache, to request the inventory from the service.
C8_ForceCache ==
    (res.op = "get_inventory" /\ res.force)
    => IF res.cache0 # None
       THEN /\ res.ret = Some(res.cache0[1].inv)
            /\ res.requests = 0
            /\ res.gate = "skipped"
            /\ slist_cache = res.cache0
            /\ flagfile = res.flag0
       ELSE /\ res.gate # "skipped"
            /\ res.requests = 1

C8_Witness ==
    /\ res.op = "get_inventory"
    /\ res.force
    /\ res.cache0 # None
    /\ res.t0 - res.cache0[1].mtime > cfg.maxcacheage
    /\ ~GateClosed0
    /\ res.ret = Some(res.cache0[1].inv)

select(inv, network, station) ==
    LET matching(net) == SelectSeq(net.stations, LAMBDA s : s.code = station)
        kept == SelectSeq(inv, LAMBDA net :
                    /\ net.code = network
                    /\ ~(net.stations # <<>> /\ matching(net) = <<>>))
    IN  [i \in 1..Len(kept) |->
            [code |-> kept[i].code, stations |-> matching(kept[i])]]

\* is_operating() taking any epoch of the station for an operating one
is_operating_any_epoch(fullinv, network, station, t) ==
    LET selinv == select(fullinv, network, station)
    IN  IF Len(selinv) < 1 THEN FALSE
        ELSE selinv[1].stations # <<>>

\* is_operating(fullinv, network, station), t being UTCDateTime()
is_operating(fullinv, network, station, t) ==
    LET selinv == select(fullinv, network, station)
    IN  IF Len(selinv) < 1 THEN FALSE
        ELSE \E i \in 1..Len(selinv[1].stations) :
                LET episode == selinv[1].stations[i]
                IN  episode.end_date = None \/ episode.end_date[1] > t

\* select_random_station(), lines 412-418: TRUE iff the loop breaks on the
\* drawn station; dice is np.random.random() in percent
draw_accepted(inv, net, sta, dice, t) ==
    /\ ~(net \in DOMAIN cfg.large_networks /\ dice > cfg.large_networks[net])
    /\ net \notin cfg.exclude_networks
    /\ is_operating(inv, net, sta, t)

\* the values np.random.random() is drawn from, in percent
Dice == {0, 50, 99}

\* select_random_station(), lines 404-405: the call of get_inventory(); when
\* it returns None, slist.get_contents() raises AttributeError
SelectStart ==
    /\ pc \in {"idle", "selected", "error"}
    /\ LET quiet == get_inventory(FALSE, slist_cache, flagfile, now, None, 0)
       IN  \E answer \in IF quiet.requests = 0 THEN {None} ELSE Answers,
              dur \in IF quiet.requests = 0 THEN {0} ELSE 0..MaxDur :
               LET out == get_inventory(FALSE, slist_cache, flagfile, now,
                                        answer, dur)
               IN  /\ out.now <= MaxTime
                   /\ now' = out.now
                   /\ slist_cache' = out.cache
                   /\ flagfile' = out.flag
                   /\ consumed' = Consumed(out.flag)
                   /\ slist' = out.ret
                   /\ IF out.ret = None
                      THEN /\ pc' = "error"
                           /\ res' = [CallRecord(FALSE, answer, out) EXCEPT
                                        !.op = "select_random_station",
                                        !.raised = "AttributeError"]
                      ELSE /\ pc' = "loop"
                           /\ res' = [CallRecord(FALSE, answer, out) EXCEPT
                                        !.op = "select_random_station"]
                   /\ selsta' = None
                   /\ seltime' = 0
                   /\ UNCHANGED cfg

\* select_random_station(), lines 406-419: one pass of the loop.  With an
\* empty station list np.random.randint(0, 0) raises and the loop goes on;
\* a drawn station is assigned to selsta whether or not it is accepted.
SampleIter ==
    /\ pc = "loop"
    /\ LET stalist == contents_stations(slist[1])
       IN  IF stalist = {}
           THEN UNCHANGED <<pc, selsta, seltime>>
           ELSE \E drawn \in stalist, dice \in Dice :
                   /\ selsta' = Some(drawn)
                   /\ IF draw_accepted(slist[1], drawn[1], drawn[2], dice, now)
                      THEN pc' = "selected" /\ seltime' = now
                      ELSE UNCHANGED <<pc, seltime>>
    /\ UNCHANGED <<now, cfg, slist_cache, flagfile, res, consumed, slist>>

\* the sampler's configurations: the quorum rule accepts every answer, so
\* that every inventory reaches the sampler
SamplerConfigs ==
    [maxcacheage : {1},
     inv_update_waittime : {2},
     eia_min_num_networks : {0},
     reference_networks : {{}},
     ignore_missing : {FALSE},
     exclude_networks : {{}, {"NL"}, {"GR", "CH"}},
     large_networks : LargeNetworks]

InitSampler ==
    /\ now = 0
    /\ cfg \in SamplerConfigs
    /\ slist_cache = None
    /\ flagfile = None
    /\ res = NoCall
    /\ consumed = FALSE
    /\ pc = "idle"
    /\ slist = None
    /\ selsta = None
    /\ seltime = 0
    /\ ExtraIdle

NextSampler ==
    \/ Tick /\ UNCHANGED <<samplerVars, extraVars>>
    \/ SelectStart /\ UNCHANGED extraVars
    \/ SampleIter /\ UNCHANGED extraVars

SpecSampler == InitSampler /\ [][NextSampler]_vars

\* the while loop of select_random_station() always goes on to its next
\* pass, and np.random does not withhold an acceptable draw for ever
SpecSamplerFair ==
    /\ SpecSampler
    /\ WF_vars(SampleIter /\ UNCHANGED extraVars)
    /\ SF_vars(SampleIter /\ pc' = "selected" /\ UNCHANGED extraVars)

(***************************************************************************)
(* Properties of the station sampler, checked under SpecSampler.           *)
(***************************************************************************)
\* the station has an epoch in inv that is open or ends after t
HasOperatingEpoch(inv, net, sta, t) ==
    \E i \in 1..Len(inv) : \E j \in 1..Len(inv[i].stations) :
        /\ inv[i].code = net
        /\ inv[i].stations[j].code = sta
        /\ (inv[i].stations[j].end_date = None
            \/ inv[i].stations[j].end_date[1] > t)

\* C10: a station returned by select_random_station() is in a network that
\* is not excluded and has, in the inventory sampled from, an epoch whose
\* end date is null or later than the moment it was checked.
C10_SelectedStationAllowedAndOperating ==
    (pc = "selected")
    => ( /\ selsta # None
         /\ selsta[1][1] \notin cfg.exclude_networks
         /\ HasOperatingEpoch(slist[1], selsta[1][1], selsta[1][2], seltime) )

\* a station with a closed and an open epoch, returned after the closed one
\* ended, while another network is excluded
C10_Witness ==
    /\ pc = "selected"
    /\ slist = Some(InvThreeNets)
    /\ selsta = Some(<<"GR", "BFO">>)
    /\ seltime > 1
    /\ cfg.exclude_networks = {"NL"}

(***************************************************************************)
(* The request window on its own                                           *)
(***************************************************************************)
InitWindow ==
    /\ now = 0
    /\ cfg \in { c \in SamplerConfigs :
                    c.exclude_networks = {} /\ DOMAIN c.large_networks = {} }
    /\ slist_cache = None
    /\ flagfile = None
    /\ res = NoCall
    /\ consumed = FALSE
    /\ pc = "idle"
    /\ slist = None
    /\ selsta = None
    /\ seltime = 0
    /\ wincfg \in WindowConfigs
    /\ winres = NoWindow
    /\ ProbeIdle
    /\ GuardIdle
    /\ InventoryIdle

NextWindow ==
    PickWindow /\ UNCHANGED <<cacheVars, samplerVars, probeVars, guardVars, invVars>>

SpecWindow == InitWindow /\ [][NextWindow]_vars

\* C11: every window _get_random_request_interval() returns lies within
\* global_span and is at least minreqlen and less than maxreqlen long.
C11_WindowWithinSpanAndLengths ==
    (winres.ret # None)
    => LET start == winres.ret[1][1]
           end == winres.ret[1][2]
       IN  /\ start >= wincfg.spanstart
           /\ end <= wincfg.spanstart + wincfg.spanlen
           /\ wincfg.minreqlen * TicksPerSecond <= end - start
           /\ end - start < wincfg.maxreqlen * TicksPerSecond

\* the longest window that can be drawn, in a span that is not a whole
\* number of seconds long
C11_Witness ==
    /\ winres.ret # None
    /\ wincfg.spanlen = 9
    /\ wincfg.maxreqlen = 4
    /\ wincfg.minreqlen = 1
    /\ winres.ret[1][2] - winres.ret[1][1] = 3 * TicksPerSecond
    /\ winres.ret[1][1] = wincfg.spanstart

(***************************************************************************)
(* The probe cycle as run() drives it                                      *)
(***************************************************************************)
InitProbe ==
    /\ now = 0
    /\ cfg \in { c \in SamplerConfigs :
                    c.exclude_networks = {} /\ DOMAIN c.large_networks = {} }
    /\ slist_cache = None
    /\ flagfile = None
    /\ res = NoCall
    /\ consumed = FALSE
    /\ pc = "idle"
    /\ slist = None
    /\ selsta = None
    /\ seltime = 0
    /\ wincfg = ProbeWindowConfig
    /\ winres = NoWindow
    /\ ProbeIdle
    /\ GuardIdle
    /\ InventoryIdle
    /\ GuardIdle

NextProbe ==
    \/ RunStart /\ UNCHANGED <<cacheVars, samplerVars, windowVars, guardVars, invVars>>
    \/ RandomRequest /\ UNCHANGED <<cacheVars, samplerVars, windowVars, guardVars, invVars>>
    \/ ProcessRequest /\ UNCHANGED <<cacheVars, samplerVars, windowVars, guardVars, invVars>>
    \/ NewYear /\ UNCHANGED <<cacheVars, samplerVars, windowVars, guardVars, invVars>>

SpecProbe == InitProbe /\ [][NextProbe]_vars

\* the next random_request() on the EidaAvailability instance at hand: what
\* __init__() set is not set again
NextRequest ==
    /\ probe.stage \in {"done", "error"}
    /\ probe.cycles < MaxCycles
    /\ probe' = [NoProbe EXCEPT !.stage = "fresh", !.cycles = probe.cycles + 1]
    /\ UNCHANGED <<inst, logfiles, year>>

\* one EidaAvailability instance, constructed once and used for several
\* probe cycles
NextProbeReuse ==
    \/ /\ probe.stage = "idle"
       /\ RunStart
       /\ UNCHANGED <<cacheVars, samplerVars, windowVars, guardVars, invVars>>
    \/ NextRequest /\ UNCHANGED <<cacheVars, samplerVars, windowVars, guardVars, invVars>>
    \/ RandomRequest /\ UNCHANGED <<cacheVars, samplerVars, windowVars, guardVars, invVars>>
    \/ ProcessRequest /\ UNCHANGED <<cacheVars, samplerVars, windowVars, guardVars, invVars>>

SpecProbeReuse == InitProbe /\ [][NextProbeReuse]_vars

\* the step is a call of random_request() on the new instance
IsRandomRequest == probe.stage = "fresh" /\ probe'.op = "random_request"

\* the step is a call of process_request()
IsProcessRequest == probe.stage = "requested" /\ probe'.op = "process_request"

\* the result files differ by exactly the line appended to file f
AppendedTo(f, line) == logfiles' = [logfiles EXCEPT ![f] = Append(@, line)]

\* the name the decision tree of C12 gives a waveform outcome
TreeName(w, reqlen) ==
    CASE w.raised \/ w.ntraces = 0 -> "NODATA"
      [] ~w.raised /\ w.ntraces > 1 -> "FRAGMENT"
      [] ~w.raised /\ w.ntraces = 1 /\ w.datalen < 99 * reqlen -> "INCOMPL"
      [] ~w.raised /\ w.ntraces = 1 /\ w.datalen >= 99 * reqlen /\ w.restfail
            -> "RESTFAIL"
      [] ~w.raised /\ w.ntraces = 1 /\ w.datalen >= 99 * reqlen /\ ~w.restfail
            /\ w.data[1] = "NaN" -> "METAFAIL"
      [] OTHER -> "OK"

\* the step is a call of process_request() in which every question of the
\* decision tree got an answer
IsClassified == IsProcessRequest /\ ~probe'.wave[1].trimfail

\* C12: process_request() returns the status the decision tree gives (NODATA
\* for a raised or empty waveform request, FRAGMENT for several traces
\* whatever their duration, INCOMPL below 0.99 of the requested duration,
\* then RESTFAIL, then METAFAIL, else OK), raises nothing and appends a
\* record with that status.
C12_ClassificationTree ==
    [][IsClassified =>
        LET w == probe'.wave[1]
            reqspan == probe.reqspan[1]
            name == TreeName(w, reqspan[2] - reqspan[1])
        IN  /\ probe'.status # None
            /\ error_names[probe'.status[1]] = name
            /\ probe'.raised = "none"
            /\ \E f \in LogFiles :
                  AppendedTo(f, LogLine(name, reqspan, probe.ret[1],
                                        <<"meta_time",
                                          IF w.raised THEN "-" ELSE "wave_time">>))
      ]_vars

\* two traces, each half as long as requested, are FRAGMENT
C12_Witness ==
    /\ probe.op = "process_request"
    /\ probe.wave[1].ntraces = 2
    /\ probe.wave[1].datalen < 99 * (probe.reqspan[1][2] - probe.reqspan[1][1])
    /\ probe.status = Some(STATUS_FRAGMENT)

\* C13: when the metadata request of a cycle raises, random_request() sets
\* status NOSERV, appends exactly one record (NOSERV, channel 'unknown',
\* the exception text instead of the latencies) to the selected station's
\* file and returns None; no channel is selected and the cycle sends no
\* waveform request.
C13_MetadataFailureIsNoserv ==
    /\ [][(IsRandomRequest /\ probe'.meta_raised) =>
            /\ inst'.status = Some(STATUS_NOSERV)
            /\ AppendedTo(<<probe'.sta[1], year>>,
                          LogLine("NOSERV", probe'.reqspan[1], <<"unknown">>,
                                  <<"repr(e)">>))
            /\ probe'.ret = None
            /\ probe'.raised = "none"
            /\ inst'.requestpar = None
            /\ probe'.stage = "done"
         ]_vars
    /\ [](probe.meta_raised => probe.wave_requests = 0 /\ probe.stage = "done")
    /\ [][probe.meta_raised /\ probe'.cycles = probe.cycles
            => UNCHANGED <<logfiles, inst, probe>>]_vars

\* a metadata request failed in the second cycle, after a first cycle that
\* logged a result for the same station
C13_Witness ==
    /\ probe.meta_raised
    /\ probe.cycles = 2
    /\ \E y \in Years :
          /\ Len(logfiles[<<probe.sta[1], y>>]) = 2
          /\ logfiles[<<probe.sta[1], y>>][1].status = "OK"
          /\ logfiles[<<probe.sta[1], y>>][2].status = "NOSERV"
          /\ logfiles[<<probe.sta[1], y>>][2].channel = <<"unknown">>

\* the metadata request of the step was answered and random_request() found
\* no channel list, or no channel with the two first letters of a wanted one
NoWantedChannel ==
    /\ IsRandomRequest
    /\ probe'.meta_requests = 1
    /\ ~probe'.meta_raised
    /\ \/ probe'.channels = <<>>
       \/ \A i \in DOMAIN probe'.channels : \A c \in wanted_channels :
             ~(probe'.channels[i][3] = c[1] /\ probe'.channels[i][4] = c[2])

\* C14: when the station metadata has no channels, or none with a wanted
\* two-letter prefix, the cycle ends silently: no result file changes, no
\* waveform request is sent, nothing is raised and no status is set.
C14_NoChannelEndsSilently ==
    /\ [][NoWantedChannel =>
            /\ UNCHANGED logfiles
            /\ probe'.ret = None
            /\ probe'.raised = "none"
            /\ inst'.status = None
            /\ inst'.requestpar = None
            /\ probe'.stage = "done"
            /\ probe'.wave_requests = 0
         ]_vars
    /\ [][(probe.op = "random_request" /\ probe.ret = None
            /\ probe'.cycles = probe.cycles)
            => UNCHANGED <<logfiles, inst, probe>>]_vars

\* a station answered with a channel list holding only LHZ: the cycle is
\* over and every result file is still empty
C14_Witness ==
    /\ probe.op = "random_request"
    /\ probe.stage = "done"
    /\ ~probe.meta_raised
    /\ Len(probe.channels) = 1
    /\ probe.ret = None
    /\ \A f \in LogFiles : logfiles[f] = <<>>

\* s is the beginning of t
IsPrefix(s, t) == Len(s) <= Len(t) /\ SubSeq(t, 1, Len(s)) = s

\* the step calls logresult()
CallsLogresult ==
    \/ IsProcessRequest /\ probe'.raised = "none"
    \/ IsRandomRequest /\ probe'.meta_raised

\* C15: the result files are append-only: no step removes or changes a line
\* that was written, and every logresult() call adds exactly one line to
\* exactly one file.
C15_ResultFilesAppendOnly ==
    [][/\ \A f \in LogFiles : IsPrefix(logfiles[f], logfiles'[f])
       /\ CallsLogresult =>
            \E f \in LogFiles :
               /\ Len(logfiles'[f]) = Len(logfiles[f]) + 1
               /\ \A g \in LogFiles \ {f} : logfiles'[g] = logfiles[g]
       /\ ~CallsLogresult => UNCHANGED logfiles
      ]_vars

\* a NOSERV record with an OK record of a later cycle added behind it
C15_Witness ==
    \E f \in LogFiles :
       /\ Len(logfiles[f]) = 2
       /\ logfiles[f][1].status = "NOSERV"
       /\ logfiles[f][2].status = "OK"

(***************************************************************************)
(* Invocations of run() on one host                                        *)
(***************************************************************************)
\* run(configfile, maxage) is called with a number of seconds, or by the
\* avail subcommand with None (cmdline.py, line 53); the pid file is absent
\* or was left by a process that is gone
InitGuard ==
    /\ now = 0
    /\ cfg \in { c \in SamplerConfigs :
                    c.exclude_networks = {} /\ DOMAIN c.large_networks = {} }
    /\ slist_cache = None
    /\ flagfile = None
    /\ res = NoCall
    /\ consumed = FALSE
    /\ pc = "idle"
    /\ slist = None
    /\ selsta = None
    /\ seltime = 0
    /\ WindowIdle
    /\ ProbeIdle
    /\ gmaxage \in {None, Some(1), Some(2)}
    /\ pidfile \in {None, Some([pid |-> 0, mtime |-> 0])}
    /\ ppc = [p \in Procs |-> "off"]
    /\ ptarget = [p \in Procs |-> None]
    /\ ptrace = [p \in Procs |-> <<>>]
    /\ perr = [p \in Procs |-> "none"]
    /\ InventoryIdle

otherThanGuard == <<cfg, slist_cache, flagfile, res, consumed, samplerVars,
                    windowVars, probeVars, invVars>>

NextGuard ==
    \/ Tick /\ UNCHANGED <<samplerVars, extraVars>>
    \/ \E p \in Procs : GuardStart(p) /\ UNCHANGED otherThanGuard
    \/ \E p \in Procs : PidfileExists(p) /\ UNCHANGED otherThanGuard
    \/ \E p \in Procs : PidfileStat(p) /\ UNCHANGED otherThanGuard
    \/ \E p \in Procs : PidfileRead(p) /\ UNCHANGED otherThanGuard
    \/ \E p \in Procs : KillTerm(p) /\ UNCHANGED otherThanGuard
    \/ \E p \in Procs : KillKill(p) /\ UNCHANGED otherThanGuard
    \/ \E p \in Procs : PidfileRemove(p) /\ UNCHANGED otherThanGuard
    \/ \E p \in Procs : CreatePidfile(p) /\ UNCHANGED otherThanGuard
    \/ \E p \in Procs : RunBody(p) /\ UNCHANGED otherThanGuard
    \/ \E p \in Procs : ReleaseExists(p) /\ UNCHANGED otherThanGuard
    \/ \E p \in Procs : ReleaseRemove(p) /\ UNCHANGED otherThanGuard

SpecGuard == InitGuard /\ [][NextGuard]_vars

\* the step is process p's own step out of position at
StepsFrom(p, at) == ppc[p] = at /\ ppc'[p] \notin {at, "killed"}

\* the place of the first what in process p's trace, 0 when there is none
Place(p, what) ==
    IF \E i \in DOMAIN ptrace[p] : ptrace[p][i] = what
    THEN CHOOSE i \in DOMAIN ptrace[p] :
            /\ ptrace[p][i] = what
            /\ \A j \in 1..(i - 1) : ptrace[p][j] # what
    ELSE 0

Has(p, what) == Place(p, what) > 0

\* C16: a should_exit() call that finds the marker and finds it younger than
\* maxage returns True, and run() exits: the invocation has created no
\* marker, runs no probe logic and does nothing afterwards.
C16_YoungMarkerMakesRunExit ==
    /\ [][\A p \in Procs :
            /\ (StepsFrom(p, "exists") /\ pidfile # None) => ppc'[p] = "stat"
            /\ (StepsFrom(p, "stat") /\ pidfile # None /\ gmaxage # None
                    /\ now - pidfile[1].mtime < gmaxage[1])
                => (ppc'[p] = "exited" /\ pidfile' = pidfile)
            /\ ppc[p] = "exited" => ppc'[p] = "exited"
         ]_vars
    /\ [](\A p \in Procs :
            ppc[p] = "exited" => ~Has(p, "create") /\ ~Has(p, "probe"))

\* an invocation has exited while the invocation that created the marker is
\* running the probe
C16_Witness ==
    \E p, q \in Procs :
       /\ p # q
       /\ ppc[p] = "exited"
       /\ ppc[q] = "probe"
       /\ pidfile = Some([pid |-> q, mtime |-> pidfile[1].mtime])
       /\ now - pidfile[1].mtime < gmaxage[1]

\* what an invocation does between finding the marker stale and removing it
StaleSteps == { <<"no process">>, <<"SIGTERM", "SIGKILL">>, <<"SIGTERM", "no process">> }

C18_AtMostOneProbe ==
    Cardinality({ p \in Procs : ppc[p] = "probe" }) <= 1

\* C19: an invocation started by the avail subcommand that finds a marker
\* file ends without running the probe and without raising.
C19_AvailConflictIsNoOpExit ==
    [][\A p \in Procs :
          (gmaxage = None /\ StepsFrom(p, "stat") /\ pidfile # None)
          => (ppc'[p] = "exited" /\ perr'[p] = "none")
      ]_vars

(***************************************************************************)
(* The inventory test                                                      *)
(***************************************************************************)
InitInventory ==
    /\ now = 0
    /\ cfg \in { c \in SamplerConfigs :
                    c.exclude_networks = {} /\ DOMAIN c.large_networks = {} }
    /\ slist_cache = None
    /\ flagfile = None
    /\ res = NoCall
    /\ consumed = FALSE
    /\ pc = "idle"
    /\ slist = None
    /\ selsta = None
    /\ seltime = 0
    /\ WindowIdle
    /\ ProbeIdle
    /\ GuardIdle
    /\ iconfig \in RefNetworksServers
    /\ iservers = server_list(iconfig)
    /\ isnets = None
    /\ ilog = <<>>
    /\ icall = NoInventoryCall
    /\ irnets = None
    /\ imissing = None
    /\ istage = NoInventoryRun

NextInventory ==
    ServerRequest /\ UNCHANGED <<cacheVars, samplerVars, windowVars, probeVars,
                                 guardVars, istage>>

SpecInventory == InitInventory /\ [][NextInventory]_vars

\* the lines the last call added to the result log
AddedLines == SubSeq(ilog, icall.loglen0 + 1, Len(ilog))

\* the place among the added lines where the j-th server's request is
\* announced: one line for each server before it and one more for each of
\* them that failed
ReadingPlace(j) == j + Cardinality({ i \in 1..(j - 1) : icall.answers[i] = None })

\* C20: server_request() requests every server of the list once, in order,
\* whatever the others answered; a failure is written to the result log
\* behind that server's line; snets is the union of the networks of the
\* servers that answered.
C20_ServerFailureDoesNotAbortBatch ==
    icall.op = "server_request" =>
       LET n == Len(icall.servers)
           failed == { i \in 1..n : icall.answers[i] = None }
       IN  /\ icall.requests = icall.servers
           /\ isnets = Some(UNION { icall.answers[i][1] : i \in (1..n) \ failed })
           /\ icall.ret = isnets
           /\ Len(AddedLines) = n + Cardinality(failed)
           /\ \A j \in 1..n :
                 /\ AddedLines[ReadingPlace(j)] = Reading(icall.servers[j])
                 /\ j \in failed => AddedLines[ReadingPlace(j) + 1] = Failed("repr(e)")

\* of three servers the first failed and the other two answered
C20_Witness ==
    /\ icall.op = "server_request"
    /\ Len(icall.servers) = 3
    /\ icall.answers[1] = None
    /\ icall.answers[2] = Some({"GR"})
    /\ icall.answers[3] = Some({"NL", "GR"})
    /\ isnets = Some({"GR", "NL"})

(***************************************************************************)
(* The inventory test as run() drives it                                   *)
(***************************************************************************)
notInventory == <<cacheVars, samplerVars, windowVars, probeVars, guardVars>>

\* run(), line 294: ei.server_request()
RunServerRequest ==
    /\ istage.at = "started"
    /\ ServerRequest
    /\ iservers' = iservers
    /\ istage' = [istage EXCEPT !.at = "served"]

NextInventoryRun ==
    \/ InventoryRunStart /\ UNCHANGED notInventory
    \/ RunServerRequest /\ UNCHANGED notInventory
    \/ RoutingRequest /\ UNCHANGED notInventory
    \/ Check4MissingNetworks /\ UNCHANGED notInventory
    \/ PrintResults /\ UNCHANGED notInventory

\* the result log holds nothing, or the lines of an earlier run without
\* servers whose routed request failed
InitInventoryRun ==
    /\ now = 0
    /\ cfg \in { c \in SamplerConfigs :
                    c.exclude_networks = {} /\ DOMAIN c.large_networks = {} }
    /\ slist_cache = None
    /\ flagfile = None
    /\ res = NoCall
    /\ consumed = FALSE
    /\ pc = "idle"
    /\ slist = None
    /\ selsta = None
    /\ seltime = 0
    /\ WindowIdle
    /\ ProbeIdle
    /\ GuardIdle
    /\ iconfig \in RefNetworksServers
    /\ iservers = server_list(iconfig)
    /\ isnets = None
    /\ ilog \in { <<>>, <<Started, ReadingRouting, Failed("repr(e)"), Separator>> }
    /\ icall = NoInventoryCall
    /\ irnets = None
    /\ imissing = None
    /\ istage = NoInventoryRun

SpecInventoryRun == InitInventoryRun /\ [][NextInventoryRun]_vars

\* the step is a routing_request() whose request raised
RoutingFailed ==
    istage.at = "served" /\ icall'.op = "routing_request" /\ icall'.ret = None

\* the texts print_results() begins its lines about the networks with
ComparisonTexts ==
    {"missing reference networks:", "rnets", "snets", "rnets-snets", "snets-rnets"}

\* C21: when the routed request fails, routing_request() writes the failure
\* to the result log and the cycle ends there: rnets is not set, nothing is
\* done afterwards and the cycle's lines hold no missing-reference-network
\* line and no comparison of rnets and snets.
C21_RoutingFailureAbortsCycle ==
    /\ [][RoutingFailed =>
            /\ ilog' = ilog \o <<ReadingRouting, Failed("repr(e)"), Separator>>
            /\ istage'.at = "exited"
            /\ irnets' = None
            /\ imissing' = None
            /\ isnets' = isnets
         ]_vars
    /\ [][istage.at = "exited" => UNCHANGED invVars]_vars
    /\ [](istage.at = "exited" =>
            \A i \in (istage.log0 + 1)..Len(ilog) : ilog[i].text \notin ComparisonTexts)

\* the cycle ended at the failed routed request although a server had
\* answered with networks
C21_Witness ==
    /\ istage.at = "exited"
    /\ isnets = Some({"NL", "GR"})
    /\ irnets = None
    /\ ilog[Len(ilog) - 1] = Failed("repr(e)")

\* the step is a call of check4missing_networks() that returns
IsCheck4Missing ==
    icall'.op = "check4missing_networks" /\ istage' # istage /\ irnets # None

\* the step is a call of print_results()
IsPrintResults == icall'.op = "print_results" /\ istage' # istage

\* the lines the step adds to the result log
NewLines == SubSeq(ilog', Len(ilog) + 1, Len(ilog'))

\* C22: check4missing_networks() gives the reference networks that are not
\* in rnets, print_results() writes them (when there are any) with
\* rnets - snets and snets - rnets; neither changes rnets or snets, and a
\* second call gives what the first gave.
C22_DifferencesArePure ==
    /\ [][IsCheck4Missing =>
            LET reference == { iconfig[i][1] : i \in DOMAIN iconfig }
            IN  /\ imissing' # None
                /\ Range(imissing'[1]) = reference \ irnets[1]
                /\ Len(imissing'[1]) = Cardinality(reference \ irnets[1])
                /\ imissing # None => imissing' = imissing
                /\ UNCHANGED <<irnets, isnets, ilog>>
         ]_vars
    /\ [][IsPrintResults =>
            LET n == Len(NewLines)
            IN  /\ (imissing[1] # <<>>) =>
                      NewLines[1] = NetsLine("missing reference networks:", imissing[1])
                /\ (imissing[1] = <<>>) => NewLines[1].text # "missing reference networks:"
                /\ NewLines[n - 3].text = "rnets-snets"
                /\ Range(NewLines[n - 3].nets) = irnets[1] \ isnets[1]
                /\ NewLines[n - 2].text = "snets-rnets"
                /\ Range(NewLines[n - 2].nets) = isnets[1] \ irnets[1]
                /\ istage.at = "printed" => NewLines = SubSeq(ilog, Len(ilog) - n + 1, Len(ilog))
                /\ UNCHANGED <<irnets, isnets, imissing>>
         ]_vars

\* the results were computed and written twice: NL is a missing reference
\* network, CH is only in rnets and NL only in snets
C22_Witness ==
    /\ istage.at = "printed"
    /\ istage.repeats = 2
    /\ icall.op = "print_results"
    /\ imissing = Some(<<"NL">>)
    /\ irnets = Some({"GR", "CH"})
    /\ isnets = Some({"NL", "GR"})

\* C23: a restituted trace that holds a NaN sample anywhere never gets
\* status OK.
C23_NoNanSampleWhenOk ==
    (probe.op = "process_request" /\ probe.status = Some(STATUS_OK))
    => \A i \in DOMAIN probe.wave[1].data : probe.wave[1].data[i] # "NaN"

\* C24: an exception raised while process_request() classifies a fetched
\* trace does not leave process_request(): the status is NOSERV and a
\* record is appended.
C24_ClassificationIsTotal ==
    [][(IsProcessRequest /\ probe'.wave[1].trimfail) =>
          /\ probe'.raised = "none"
          /\ probe'.status = Some(STATUS_NOSERV)
          /\ \E f \in LogFiles : Len(logfiles'[f]) = Len(logfiles[f]) + 1
      ]_vars

\* no draw from the catalog sampled from can end the loop, now or later
NoStationCanPass ==
    /\ pc = "loop"
    /\ \A drawn \in contents_stations(slist[1]), dice \in Dice :
          ~draw_accepted(slist[1], drawn[1], drawn[2], dice, now)

\* C25: when no station can pass the filters, select_random_station() ends
\* with a SamplingExhausted failure.
C25_SamplingExhausted ==
    NoStationCanPass ~> (pc = "error" /\ res.raised = "SamplingExhausted")

\* C26: the cache file changes only in a get_inventory() call whose fetched
\* inventory satisfied the quorum rule, and then it becomes that inventory
\* alone, stamped with the time of the answer; a failed or rejected fetch
\* leaves its content and modification time as they were.
C26_CacheReplacedOnlyByValidFetch ==
    [][ /\ (slist_cache' # slist_cache) =>
              /\ res'.op = "get_inventory"
              /\ res'.requests = 1
              /\ res'.fetch = "accepted"
              /\ res'.cache0 = slist_cache
              /\ res'.answer # None
              /\ QuorumRule(res'.answer[1])
              /\ slist_cache' = Some([inv |-> res'.answer[1], mtime |-> res'.t1])
        /\ ( /\ res'.op = "get_inventory"
             /\ res'.t0 = now /\ res'.t1 = now'
             /\ res'.fetch \in {"transport", "rejected"} )
           => slist_cache' = slist_cache
      ]_vars

\* a stale cache superseded by an accepted inventory that differs from it,
\* after an earlier rejected fetch had left it alone
C26_Witness ==
    /\ res.op = "get_inventory"
    /\ res.fetch = "accepted"
    /\ res.cache0 # None
    /\ res.t0 - res.cache0[1].mtime > cfg.maxcacheage
    /\ res.cache0[1].inv = InvOneNet
    /\ res.answer = Some(InvThreeNets)
    /\ slist_cache = Some([inv |-> InvThreeNets, mtime |-> res.t1])
    /\ res.flag0 # None

\* the call recorded in res returned the inventory the cache file held when
\* the call began
ReturnedCached ==
    /\ res.op = "get_inventory"
    /\ res.cache0 # None
    /\ res.fetch # "accepted"
    /\ res.ret = Some(res.cache0[1].inv)

\* age of the cache file when the call recorded in res began
CacheAge0 == res.t0 - res.cache0[1].mtime

\* C27: get_inventory() without force_cache returns a cached inventory
\* older than maxcacheage only when the gate denied a retry or a request
\* was sent and failed or was rejected; a cached inventory of age at most
\* maxcacheage is returned without a request.
C27_BoundedStaleness ==
    (res.op = "get_inventory" /\ ~res.force /\ res.cache0 # None)
    => /\ (ReturnedCached /\ CacheAge0 > cfg.maxcacheage)
          => \/ res.gate = "deny"
             \/ res.requests = 1 /\ res.fetch \in {"transport", "rejected"}
       /\ (CacheAge0 <= cfg.maxcacheage)
          => /\ ReturnedCached
             /\ res.requests = 0
             /\ slist_cache = res.cache0

\* a cached inventory older than maxcacheage returned although the gate
\* allowed a retry, because the inventory fetched was rejected
C27_Witness ==
    /\ ReturnedCached
    /\ ~res.force
    /\ CacheAge0 > cfg.maxcacheage
    /\ res.gate = "allow"
    /\ res.fetch = "rejected"
    /\ res.flag0 # None

\* the last line of a result file
LastLine(content) == content[Len(content)]

\* C28: on one instance used for several cycles, a record is appended to
\* the file of the station selected in the cycle that writes it and carries
\* that cycle's request window.
C28_RecordBelongsToItsCycle ==
    [][\A f \in LogFiles :
          (logfiles'[f] # logfiles[f])
          => /\ probe'.sta = Some(f[1])
             /\ LastLine(logfiles'[f]).reqstart = probe'.reqspan[1][1]
             /\ LastLine(logfiles'[f]).reqlen
                   = probe'.reqspan[1][2] - probe'.reqspan[1][1]
      ]_vars

\* C29: _get_random_request_interval() returns a window whenever
\* minreqlen <= maxreqlen and maxreqlen is smaller than the global span, of
\* exactly minreqlen when the two are equal.
C29_WindowForEqualLengths ==
    ( /\ winres.calls > 0
      /\ wincfg.minreqlen <= wincfg.maxreqlen
      /\ wincfg.maxreqlen < wincfg.spanlen \div TicksPerSecond )
    => /\ winres.raised = "none"
       /\ winres.ret # None
       /\ (wincfg.minreqlen = wincfg.maxreqlen)
          => winres.ret[1][2] - winres.ret[1][1]
                = wincfg.minreqlen * TicksPerSecond

\* C30: an invocation of run() that created the marker file and has ended,
\* in whatever way, has not left its marker behind.
C30_EndedRunRemovedItsMarker ==
    \A p \in Procs :
        (ppc[p] \in {"done", "crashed"} /\ Has(p, "create"))
        => (pidfile = None \/ pidfile[1].pid # p)

====
